---- MODULE Spec2Model ----
(***************************************************************************)
(* A model of the GraphQL client of client.go: the request builders (plain *)
(* JSON and the multipart upload convention), the exchange (Client.do)     *)
(* with its cancellation context and response body, the decoding of the    *)
(* reply envelope, and Response.Guess.                                     *)
(***************************************************************************)
EXTENDS Integers, Sequences, FiniteSets, TLC

\* ------------------------------------------------------------------ bounds

\* The longest attachment list a caller passes.
MaxFiles == 3

\* The most bytes that follow the first JSON value (or the syntax error) of a
\* reply body.
MaxTrail == 2

\* ------------------------------------------------------- JSON text (values)

JNull == [t |-> "null"]

JStr(s) == [t |-> "str", s |-> s]

JNum(n) == [t |-> "num", n |-> n]

JArr(a) == [t |-> "arr", a |-> a]

JObj(o) == [t |-> "obj", o |-> o]

\* A body that is not JSON at all.
JBad == [t |-> "syntax error"]

EmptyMap == [k \in {} |-> JNull]

\* --------------------------------------------------------------- Go values

GoNil == [g |-> "nil"]

GoString(s) == [g |-> "string", s |-> s]

GoSlice(a) == [g |-> "slice", a |-> a]

GoMap(m) == [g |-> "map", m |-> m]

\* A value encoding/json refuses to encode.
GoChan == [g |-> "chan"]

\* json.Marshal succeeds on v.
RECURSIVE Marshalable(_)
Marshalable(v) ==
    CASE v.g = "chan" -> FALSE
      [] v.g = "slice" -> \A i \in DOMAIN v.a : Marshalable(v.a[i])
      [] v.g = "map" -> \A k \in DOMAIN v.m : Marshalable(v.m[k])
      [] OTHER -> TRUE

\* json.Marshal of a marshalable value.
RECURSIVE Marshal(_)
Marshal(v) ==
    CASE v.g = "nil" -> JNull
      [] v.g = "string" -> JStr(v.s)
      [] v.g = "slice" -> JArr([i \in DOMAIN v.a |-> Marshal(v.a[i])])
      [] v.g = "map" -> JObj([k \in DOMAIN v.m |-> Marshal(v.m[k])])

Digits == <<"0", "1", "2", "3", "4", "5", "6", "7", "8", "9">>

\* strconv.Itoa for i >= 0.
RECURSIVE Itoa(_)
Itoa(i) ==
    IF i < 10 THEN Digits[i + 1] ELSE Itoa(i \div 10) \o Digits[(i % 10) + 1]

\* ------------------------------------------------------------- attachments

\* A NamedReader: a nil interface value, or a stream with a name, the bytes it
\* yields and whether reading it fails.  Every attachment is a stream of its own.
NilFile == [nil |-> TRUE, name |-> "", bytes |-> <<>>, bad |-> FALSE]

FileA == [nil |-> FALSE, name |-> "a.txt", bytes |-> <<1>>, bad |-> FALSE]

FileB == [nil |-> FALSE, name |-> "b.txt", bytes |-> <<2, 3>>, bad |-> FALSE]

FileBad == [nil |-> FALSE, name |-> "c.txt", bytes |-> <<4>>, bad |-> TRUE]

FileUniverse == {NilFile, FileA, FileB, FileBad}

SeqsUpTo(S, n) == UNION {[1..k -> S] : k \in 0..n}

FileLists == SeqsUpTo(FileUniverse, MaxFiles)

\* ---------------------------------------------------------------- Request

NilRequest ==
    [nil |-> TRUE, OperationName |-> "", Query |-> "", Variables |-> GoNil,
     Files |-> <<>>]

NewRequest(query, operationName, variables) ==
    [nil |-> FALSE, OperationName |-> operationName, Query |-> query,
     Variables |-> variables, Files |-> <<>>]

NewUploadRequest(query, operationName, file) ==
    [nil |-> FALSE, OperationName |-> operationName, Query |-> query,
     Variables |-> GoNil, Files |-> file]

\* The Go value json.Marshal sees for a Request: the three tagged fields and
\* the untagged exported field Files.
RequestValue(req) ==
    GoMap([k \in {"operationName", "query", "variables", "Files"} |->
        CASE k = "operationName" -> GoString(req.OperationName)
          [] k = "query" -> GoString(req.Query)
          [] k = "variables" -> req.Variables
          [] k = "Files" ->
               IF req.Files = <<>> THEN GoNil
               ELSE GoSlice([i \in DOMAIN req.Files |->
                       IF req.Files[i].nil THEN GoNil ELSE GoMap(EmptyMap)])])

\* ------------------------------------------------------------ HTTP request

NilHTTPRequest ==
    [nil |-> TRUE, contentType |-> "", body |-> JNull, parts |-> <<>>]

\* The nil error.
NoErr == [kind |-> "nil"]

\* errors.New(msg), and the errors of the libraries called.
ErrorsNew(msg) == [kind |-> "text", chain |-> <<msg>>]

\* fmt.Errorf("<prefix>: %w", err): the wrap chain, outermost first.
Errorf(prefix, err) == [kind |-> "text", chain |-> <<prefix>> \o err.chain]

\* Client.buildJSONRequest: the pair (httpReq, err).
buildJSONRequest(urlOK, req) ==
    IF ~Marshalable(RequestValue(req))
    THEN [httpReq |-> NilHTTPRequest,
          err |-> Errorf("build http request error",
                         ErrorsNew("json: unsupported type"))]
    ELSE IF ~urlOK
    THEN [httpReq |-> NilHTTPRequest,
          err |-> Errorf("build http request error", ErrorsNew("parse url"))]
    ELSE [httpReq |-> [nil |-> FALSE, contentType |-> "application/json",
                       body |-> Marshal(RequestValue(req)), parts |-> <<>>],
          err |-> NoErr]

\* writeField: appends the form field fieldname holding json.Marshal(value) to
\* the multipart writer w.
writeField(w, fieldname, value) ==
    IF ~Marshalable(value)
    THEN [w |-> w,
          err |-> Errorf("write field " \o fieldname \o " error",
                         ErrorsNew("json: unsupported type"))]
    ELSE [w |-> Append(w, [key |-> fieldname, isFile |-> FALSE, filename |-> "",
                           json |-> Marshal(value), bytes |-> <<>>]),
          err |-> NoErr]

\* writeFile: file.Name() on a nil interface panics; otherwise the form file
\* fieldname is created and the stream copied into it.
writeFile(w, fieldname, file) ==
    IF file.nil THEN [w |-> w, err |-> NoErr, panic |-> TRUE]
    ELSE IF file.bad
    THEN [w |-> Append(w, [key |-> fieldname, isFile |-> TRUE,
                           filename |-> file.name, json |-> JNull,
                           bytes |-> <<>>]),
          err |-> Errorf("write file " \o fieldname \o " error",
                         ErrorsNew("read error")),
          panic |-> FALSE]
    ELSE [w |-> Append(w, [key |-> fieldname, isFile |-> TRUE,
                           filename |-> file.name, json |-> JNull,
                           bytes |-> file.bytes]),
          err |-> NoErr, panic |-> FALSE]

Put(m, k, v) == [x \in DOMAIN m \cup {k} |-> IF x = k THEN v ELSE m[x]]

\* The loop of lines 239-242 from index i on: acc.m is the map m, acc.s the
\* slice s of nil pointers.
RECURSIVE PlaceholderLoop(_, _, _)
PlaceholderLoop(files, i, acc) ==
    IF i >= Len(files) THEN acc
    ELSE PlaceholderLoop(files, i + 1,
            [m |-> Put(acc.m, Itoa(i),
                       GoSlice(<<GoString("variables.files." \o Itoa(i))>>)),
             s |-> Append(acc.s, GoNil)])

\* WriteFilesLoop keying the binary parts from "1".
RECURSIVE WriteFilesLoopFromOne(_, _, _)
WriteFilesLoopFromOne(w, files, i) ==
    IF i >= Len(files) THEN [w |-> w, err |-> NoErr, panic |-> FALSE]
    ELSE LET r == writeFile(w, Itoa(i + 1), files[i + 1])
         IN IF r.panic \/ r.err # NoErr THEN r
            ELSE WriteFilesLoopFromOne(r.w, files, i + 1)

\* The loop of lines 251-255 from index i on; it stops at the first panic or
\* error.
RECURSIVE WriteFilesLoop(_, _, _)
WriteFilesLoop(w, files, i) ==
    IF i >= Len(files) THEN [w |-> w, err |-> NoErr, panic |-> FALSE]
    ELSE LET r == writeFile(w, Itoa(i), files[i + 1])
         IN IF r.panic \/ r.err # NoErr THEN r
            ELSE WriteFilesLoop(r.w, files, i + 1)

\* filesToSend sending every attachment in either mode.
filesToSendAll(req, single) == req.Files

\* The attachments buildFormDataRequest sends (lines 233 and 237).
filesToSend(req, single) ==
    IF single THEN SubSeq(req.Files, 1, 1) ELSE req.Files

\* Client.buildFormDataRequest from line 227 on: (httpReq, err), the Request
\* as the call leaves it, and whether the call panicked.
encodeFormData(urlOK, req, single) ==
    LET files == filesToSend(req, single)
        loop == PlaceholderLoop(files, 0, [m |-> EmptyMap, s |-> <<>>])
        m == IF single
             THEN Put(EmptyMap, "0", GoSlice(<<GoString("variables.file")>>))
             ELSE loop.m
        req1 == [req EXCEPT !.Variables =
                    IF single THEN GoMap(Put(EmptyMap, "file", GoNil))
                    ELSE GoMap(Put(EmptyMap, "files", GoSlice(loop.s)))]
        w1 == writeField(<<>>, "operations", RequestValue(req1))
        w2 == writeField(w1.w, "map", GoMap(m))
        w3 == WriteFilesLoop(w2.w, files, 0)
        fail(e) == [httpReq |-> NilHTTPRequest, req |-> req1, panic |-> FALSE,
                    err |-> Errorf("build form data request error", e)]
    IN  IF w1.err # NoErr THEN fail(w1.err)
        ELSE IF w2.err # NoErr THEN fail(w2.err)
        ELSE IF w3.panic
        THEN [httpReq |-> NilHTTPRequest, req |-> req1, panic |-> TRUE,
              err |-> NoErr]
        ELSE IF w3.err # NoErr THEN fail(w3.err)
        ELSE IF ~urlOK THEN fail(ErrorsNew("parse url"))
        ELSE [httpReq |-> [nil |-> FALSE,
                           contentType |-> "multipart/form-data; boundary",
                           body |-> JNull, parts |-> w3.w],
              req |-> req1, panic |-> FALSE, err |-> NoErr]

\* buildFormDataRequest without the check of lines 224-226.
buildFormDataRequestNoCheck(urlOK, req, single) ==
    encodeFormData(urlOK, req, single)

\* Client.buildFormDataRequest.
buildFormDataRequest(urlOK, req, single) ==
    IF req.Files = <<>>
    THEN [httpReq |-> NilHTTPRequest, req |-> req, panic |-> FALSE,
          err |-> ErrorsNew("build form data request error: has no files")]
    ELSE encodeFormData(urlOK, req, single)

\* ---------------------------------------------------------------- Response

\* A nil *Response.
NilResponse == [nil |-> TRUE, Data |-> JNull, Errors |-> <<>>, req |-> NilRequest]

\* &Response{req: req}.  Data is JNull for a nil map; a nil and an empty Errors
\* slice are both <<>>.
NewResponse(req) == [nil |-> FALSE, Data |-> JNull, Errors |-> <<>>, req |-> req]

\* A nil *GraphQLError.
NilGraphQLError == [nil |-> TRUE, Message |-> ""]

\* HasError as it would be if an envelope holding data counted as a success.
HasErrorUnlessData(r) == ~(r.Errors = <<>>) /\ r.Data = JNull

\* Response.HasError.
HasError(r) == ~(r.Errors = <<>>)

\* The JSON text of the Errors slice.
ErrorsJSON(errs) ==
    JArr([i \in DOMAIN errs |->
            IF errs[i].nil THEN JNull
            ELSE JObj([k \in {"message", "path", "locations", "extensions"} |->
                        IF k = "message" THEN JStr(errs[i].Message) ELSE JNull])])

\* Response.Error: "<operation name> error: <errors as JSON>".
Error(r) == <<r.req.OperationName, " error: ", ErrorsJSON(r.Errors)>>

\* The protocol error: the envelope itself as the error value.
ResponseErr(r) == [kind |-> "response", resp |-> r]

\* encoding/json into a *GraphQLError element of Errors.
DecodeGraphQLError(v) ==
    CASE v.t = "null" -> [bad |-> FALSE, val |-> NilGraphQLError]
      [] v.t = "obj" ->
            IF "message" \notin DOMAIN v.o \/ v.o["message"].t = "null"
            THEN [bad |-> FALSE, val |-> [nil |-> FALSE, Message |-> ""]]
            ELSE IF v.o["message"].t = "str"
            THEN [bad |-> FALSE,
                  val |-> [nil |-> FALSE, Message |-> v.o["message"].s]]
            ELSE [bad |-> TRUE, val |-> [nil |-> FALSE, Message |-> ""]]
      [] OTHER -> [bad |-> TRUE, val |-> NilGraphQLError]

\* json.NewDecoder(body).Decode(&resp) for resp a *Response: the pointer after
\* the call and the error.  The literal null sets the pointer to nil; a JSON
\* object fills the pointed-to Response, keeping its unexported req; a wrongly
\* typed field is skipped and reported.
DecodeResponse(resp, text) ==
    CASE text.t = "syntax error" ->
            [resp |-> resp, err |-> ErrorsNew("invalid character")]
      [] text.t = "null" -> [resp |-> NilResponse, err |-> NoErr]
      [] text.t = "obj" ->
            LET o == text.o
                hasData == "data" \in DOMAIN o
                hasErrs == "errors" \in DOMAIN o
                badData == hasData /\ o["data"].t \notin {"null", "obj"}
                errsArr == hasErrs /\ o["errors"].t = "arr"
                elems == IF errsArr
                         THEN [i \in DOMAIN o["errors"].a |->
                                 DecodeGraphQLError(o["errors"].a[i])]
                         ELSE <<>>
                badErrs == \/ hasErrs /\ o["errors"].t \notin {"null", "arr"}
                           \/ \E i \in DOMAIN elems : elems[i].bad
            IN [resp |-> [resp EXCEPT
                    !.Data = IF hasData /\ ~badData THEN o["data"] ELSE @,
                    !.Errors = IF errsArr
                               THEN [i \in DOMAIN elems |-> elems[i].val]
                               ELSE IF hasErrs /\ o["errors"].t = "null"
                               THEN <<>> ELSE @],
                err |-> IF badData \/ badErrs
                        THEN ErrorsNew("json: cannot unmarshal")
                        ELSE NoErr]
      [] OTHER -> [resp |-> resp, err |-> ErrorsNew("json: cannot unmarshal")]

\* ------------------------------------------------------------------- Guess

\* The destination record type of the test: person, with the key each field
\* is filled from.
person == [Name |-> "", Age |-> 0]

\* A destination handle: &p for a person, or &ps for a []*person.
RecordDest(p) == [type |-> "person", rec |-> p, list |-> <<>>]

ListDest(ps) == [type |-> "[]*person", rec |-> person, list |-> ps]

\* The conversion of one JSON object into a person: a field is set from the
\* value under its key when the key is present with a value of the field's
\* type; a null or absent key leaves the field; any other value is a
\* conversion error.
DecodePerson(d, p) ==
    IF d.t # "obj" THEN [bad |-> TRUE, rec |-> p]
    ELSE LET has(k) == k \in DOMAIN d.o /\ d.o[k].t # "null"
             okName == has("name") /\ d.o["name"].t = "str"
             okAge == has("age") /\ d.o["age"].t = "num"
         IN [bad |-> (has("name") /\ ~okName) \/ (has("age") /\ ~okAge),
             rec |-> [Name |-> IF okName THEN d.o["name"].s ELSE p.Name,
                      Age |-> IF okAge THEN d.o["age"].n ELSE p.Age]]

\* mapstructure.Decode(d, v): the conversion error (if any) and the destination
\* after the call.  A list is converted element by element, in order, each
\* element into a fresh person.
Decode(d, v) ==
    IF v.type = "person"
    THEN LET r == DecodePerson(d, v.rec)
         IN [err |-> IF r.bad THEN ErrorsNew("expected a map or a matching type")
                     ELSE NoErr,
             v |-> [v EXCEPT !.rec = r.rec]]
    ELSE IF d.t # "arr"
    THEN [err |-> ErrorsNew("source data must be an array or slice"), v |-> v]
    ELSE LET rs == [i \in DOMAIN d.a |-> DecodePerson(d.a[i], person)]
         IN [err |-> IF \E i \in DOMAIN rs : rs[i].bad
                     THEN ErrorsNew("expected a map or a matching type")
                     ELSE NoErr,
             v |-> [v EXCEPT !.list = [i \in DOMAIN rs |-> rs[i].rec]]]

\* Guess checking HasError before the data.
GuessErrorsFirst(r, name, v) ==
    IF HasError(r)
    THEN [err |-> ResponseErr(r), v |-> v]
    ELSE IF r.Data = JNull
    THEN [err |-> ErrorsNew("guess error: has no data"), v |-> v]
    ELSE IF name \notin DOMAIN r.Data.o
    THEN [err |-> ErrorsNew("guess error: has no data about " \o name), v |-> v]
    ELSE LET c == Decode(r.Data.o[name], v)
         IN IF c.err # NoErr
            THEN [err |-> Errorf("guess error", c.err), v |-> c.v]
            ELSE [err |-> NoErr, v |-> c.v]

\* Guess without the HasError check.
GuessWithoutErrorCheck(r, name, v) ==
    IF r.Data = JNull
    THEN [err |-> ErrorsNew("guess error: has no data"), v |-> v]
    ELSE IF name \notin DOMAIN r.Data.o
    THEN [err |-> ErrorsNew("guess error: has no data about " \o name), v |-> v]
    ELSE LET c == Decode(r.Data.o[name], v)
         IN IF c.err # NoErr
            THEN [err |-> Errorf("guess error", c.err), v |-> c.v]
            ELSE [err |-> NoErr, v |-> c.v]

\* Guess converting into a copy of the destination.
GuessByValue(r, name, v) ==
    IF r.Data = JNull
    THEN [err |-> ErrorsNew("guess error: has no data"), v |-> v]
    ELSE IF HasError(r)
    THEN [err |-> ResponseErr(r), v |-> v]
    ELSE IF name \notin DOMAIN r.Data.o
    THEN [err |-> ErrorsNew("guess error: has no data about " \o name), v |-> v]
    ELSE LET c == Decode(r.Data.o[name], v)
         IN IF c.err # NoErr
            THEN [err |-> Errorf("guess error", c.err), v |-> v]
            ELSE [err |-> NoErr, v |-> v]

\* Response.Guess(name, v): the error returned and the destination after the
\* call.
Guess(r, name, v) ==
    IF r.Data = JNull
    THEN [err |-> ErrorsNew("guess error: has no data"), v |-> v]
    ELSE IF HasError(r)
    THEN [err |-> ResponseErr(r), v |-> v]
    ELSE IF name \notin DOMAIN r.Data.o
    THEN [err |-> ErrorsNew("guess error: has no data about " \o name), v |-> v]
    ELSE LET c == Decode(r.Data.o[name], v)
         IN IF c.err # NoErr
            THEN [err |-> Errorf("guess error", c.err), v |-> c.v]
            ELSE [err |-> NoErr, v |-> c.v]

\* ------------------------------------------------------------ the exchange

\* ctx.Err() of a cancellation context in state c.
CtxErr(c) == ErrorsNew(c.err)

\* doFail without the select on ctx.Done().
doFailRaw(c, err) ==
    [kind |-> "return", resp |-> NilResponse,
     err |-> Errorf("graphql do error", err)]

\* Client.do after c.httpClient.Do has failed with err (lines 169-178): the
\* select on ctx.Done() with its default case.
doFail(c, err) ==
    IF c.err # "nil"
    THEN [kind |-> "return", resp |-> NilResponse,
          err |-> Errorf("graphql do error", CtxErr(c))]
    ELSE [kind |-> "return", resp |-> NilResponse,
          err |-> Errorf("graphql do error", err)]

\* doReply closing the body only on the way out that returns the envelope.
doReplyCloseOnSuccess(r, b, extra) ==
    LET resp == NewResponse(r)
        dec == DecodeResponse(resp, b.text)
        read == [b EXCEPT !.unread = b.trail - extra]
        closed == [read EXCEPT !.closed = TRUE]
    IN  IF dec.err # NoErr
        THEN [ret |-> [kind |-> "return", resp |-> NilResponse,
                       err |-> Errorf("graphql do error", dec.err)],
              body |-> read]
        ELSE IF dec.resp.nil
        THEN [ret |-> [kind |-> "panic", resp |-> NilResponse, err |-> NoErr],
              body |-> read]
        ELSE IF ~(dec.resp.Errors = <<>>)
        THEN [ret |-> [kind |-> "return", resp |-> NilResponse,
                       err |-> ResponseErr(dec.resp)],
              body |-> read]
        ELSE [ret |-> [kind |-> "return", resp |-> dec.resp, err |-> NoErr],
              body |-> closed]

\* Client.do after c.httpClient.Do has returned a response (lines 179-188):
\* what the call returns and the body as it leaves it.  The decoder stops
\* reading after the first JSON value or at the syntax error; extra is how much
\* of what follows it had buffered.  resp.HasError() on a nil resp panics.  The
\* deferred Close runs on every way out.
doReply(r, b, extra) ==
    LET resp == NewResponse(r)
        dec == DecodeResponse(resp, b.text)
        read == [b EXCEPT !.unread = b.trail - extra]
        closed == [read EXCEPT !.closed = TRUE]
    IN  IF dec.err # NoErr
        THEN [ret |-> [kind |-> "return", resp |-> NilResponse,
                       err |-> Errorf("graphql do error", dec.err)],
              body |-> closed]
        ELSE IF dec.resp.nil
        THEN [ret |-> [kind |-> "panic", resp |-> NilResponse, err |-> NoErr],
              body |-> closed]
        ELSE IF HasError(dec.resp)
        THEN [ret |-> [kind |-> "return", resp |-> NilResponse,
                       err |-> ResponseErr(dec.resp)],
              body |-> closed]
        ELSE [ret |-> [kind |-> "return", resp |-> dec.resp, err |-> NoErr],
              body |-> closed]

\* ------------------------------------------------------------------ inputs

Query == "query search { person }"

OperationName == "search"

\* The variables a caller of Do passes: none, a plain map, and a map holding a
\* value that cannot be encoded.
VariablesInputs ==
    {GoNil, GoMap(Put(EmptyMap, "text", GoString("a"))),
     GoMap(Put(EmptyMap, "c", GoChan))}

Jack == JObj([k \in {"name", "age"} |-> IF k = "name" THEN JStr("Jack") ELSE JNum(26)])

Rose == JObj([k \in {"name", "age"} |-> IF k = "name" THEN JStr("Rose") ELSE JNum(25)])

NameOnly == JObj(Put(EmptyMap, "name", JStr("Ann")))

BadAge == JObj([k \in {"name", "age"} |-> IF k = "name" THEN JStr("Bob") ELSE JStr("old")])

Absent == [t |-> "absent"]

\* The values under "person" of a reply's data.
PersonTexts ==
    {Jack, NameOnly, BadAge, JStr("x"), JArr(<<>>), JArr(<<Jack>>),
     JArr(<<Jack, Rose>>), JArr(<<Rose, Jack>>), JArr(<<Jack, BadAge>>)}

\* The "data" member of a reply: absent, null, an object, or of a wrong type.
DataTexts ==
    {Absent, JNull, JObj(EmptyMap), JStr("x")}
        \cup {JObj(Put(EmptyMap, "person", v)) : v \in PersonTexts}

\* The "data" members the exchange is run with.
ReplyDataTexts == {Absent, JNull, JStr("x"), JObj(Put(EmptyMap, "person", Jack))}

GQLErrorText(m) == JObj(Put(EmptyMap, "message", m))

\* The "errors" member of a reply.
ErrorsTexts ==
    {Absent, JNull, JArr(<<>>), JArr(<<GQLErrorText(JStr("boom"))>>),
     JArr(<<JNull>>),
     JArr(<<GQLErrorText(JStr("boom")), GQLErrorText(JStr("bang"))>>),
     JStr("x"), JArr(<<GQLErrorText(JNum(1))>>)}

\* The JSON object with the given "data" and "errors" members.
EnvelopeText(d, e) ==
    JObj([k \in (IF d = Absent THEN {} ELSE {"data"})
                    \cup (IF e = Absent THEN {} ELSE {"errors"}) |->
            IF k = "data" THEN d ELSE e])

\* The texts that are no JSON object.
OtherTexts == {JBad, JNull, JStr("x"), JArr(<<>>)}

ReplyTexts ==
    OtherTexts \cup {EnvelopeText(d, e) : d \in ReplyDataTexts, e \in ErrorsTexts}

GuessTexts == {EnvelopeText(d, e) : d \in DataTexts, e \in ErrorsTexts}

FieldNames == {"person", "other"}

OldPerson == [Name |-> "Old", Age |-> 1]

\* The destinations a caller hands to Guess: a zero or filled person, or an
\* empty sequence of persons.
Destinations == {RecordDest(person), RecordDest(OldPerson), ListDest(<<>>)}

\* ------------------------------------------------------------------- state

VARIABLES
    urlOK,      \* Client.url parses as a URL
    ctx,        \* the caller's context: its Err() and where the call stood when it was done
    pc,         \* where the call stands
    call,       \* the entry point called
    single,     \* the upload mode asked of buildFormDataRequest
    req0,       \* the Request as constructed
    req,        \* the Request
    httpReq,    \* the *http.Request built
    terr,       \* the error c.httpClient.Do returned
    body,       \* httpResp.Body
    ret,        \* what the call returned
    exchanges,  \* the number of calls of c.httpClient.Do
    gpc,        \* where the Guess caller stands
    genv,       \* the Response Guess is called on
    gname,      \* Guess's name
    gdest,      \* the destination before the call
    gret        \* Guess's result

vars ==
    <<urlOK, ctx, pc, call, single, req0, req, httpReq, terr, body, ret,
      exchanges, gpc, genv, gname, gdest, gret>>

guessVars == <<gpc, genv, gname, gdest, gret>>

callVars ==
    <<urlOK, ctx, pc, call, single, req0, req, httpReq, terr, body, ret,
      exchanges>>

NoBody ==
    [open |-> FALSE, text |-> JNull, trail |-> 0, unread |-> 0, closed |-> FALSE]

NoRet == [kind |-> "none", resp |-> NilResponse, err |-> NoErr]

NoGuessRet == [err |-> NoErr, v |-> RecordDest(person)]

\* New(url, httpClient), and a live context.
Init ==
    /\ urlOK \in BOOLEAN
    /\ ctx = [err |-> "nil", at |-> "never"]
    /\ pc = "idle"
    /\ call = "none"
    /\ single = FALSE
    /\ req0 = NilRequest
    /\ req = NilRequest
    /\ httpReq = NilHTTPRequest
    /\ terr = NoErr
    /\ body = NoBody
    /\ ret = NoRet
    /\ exchanges = 0
    /\ gpc = "new"
    /\ genv = NilResponse
    /\ gname = ""
    /\ gdest = RecordDest(person)
    /\ gret = NoGuessRet

\* The caller cancels the context, or its deadline passes.
CtxDone(reason) ==
    /\ ctx.err = "nil"
    /\ ctx' = [err |-> reason, at |-> pc]
    /\ UNCHANGED <<urlOK, pc, call, single, req0, req, httpReq, terr, body, ret,
                   exchanges>>
    /\ UNCHANGED guessVars

\* The call hands the built request to c.do, or returns err wrapped by prefix.
Built(name, mode, r0, r, b, prefix) ==
    /\ call' = name
    /\ single' = mode
    /\ req0' = r0
    /\ req' = r
    /\ httpReq' = b.httpReq
    /\ IF b.err # NoErr
       THEN /\ pc' = "done"
            /\ ret' = [kind |-> "return", resp |-> NilResponse,
                       err |-> Errorf(prefix, b.err)]
       ELSE /\ pc' = "transport"
            /\ ret' = NoRet
    /\ UNCHANGED <<urlOK, ctx, terr, body, exchanges>>
    /\ UNCHANGED guessVars

\* Client.Do up to c.httpClient.Do.
Do(query, operationName, variables) ==
    /\ pc = "idle"
    /\ LET r == NewRequest(query, operationName, variables)
       IN Built("Do", FALSE, r, r, buildJSONRequest(urlOK, r), "graphql do error")

\* A call of an upload entry point up to c.httpClient.Do.
Upload(name, r, mode) ==
    LET b == buildFormDataRequest(urlOK, r, mode)
    IN IF b.panic
       THEN /\ call' = name
            /\ single' = mode
            /\ req0' = r
            /\ req' = b.req
            /\ pc' = "done"
            /\ ret' = [kind |-> "panic", resp |-> NilResponse, err |-> NoErr]
            /\ UNCHANGED <<urlOK, ctx, httpReq, terr, body, exchanges>>
            /\ UNCHANGED guessVars
       ELSE Built(name, mode, r, b.req, b, "graphql single upload error")

\* Client.SingleUpload up to c.httpClient.Do.
SingleUpload(query, operationName, file) ==
    /\ pc = "idle"
    /\ Upload("SingleUpload",
              NewUploadRequest(query, operationName, <<file>>), TRUE)

\* Client.MultiUpload up to c.httpClient.Do.
MultiUpload(query, operationName, file) ==
    /\ pc = "idle"
    /\ Upload("MultiUpload", NewUploadRequest(query, operationName, file), FALSE)

\* A call of Client.buildFormDataRequest alone, on any Request.
BuildFormDataRequest(r, mode) ==
    /\ pc = "idle"
    /\ LET b == buildFormDataRequest(urlOK, r, mode)
       IN /\ call' = "buildFormDataRequest"
          /\ single' = mode
          /\ req0' = r
          /\ req' = b.req
          /\ httpReq' = b.httpReq
          /\ pc' = "done"
          /\ ret' = [kind |-> IF b.panic THEN "panic" ELSE "return",
                     resp |-> NilResponse, err |-> b.err]
    /\ UNCHANGED <<urlOK, ctx, terr, body, exchanges>>
    /\ UNCHANGED guessVars

\* c.httpClient.Do(httpReq) returns an error.
TransportFail ==
    /\ pc = "transport"
    /\ pc' = "select"
    /\ terr' = ErrorsNew("Post: transport failure")
    /\ exchanges' = exchanges + 1
    /\ UNCHANGED <<urlOK, ctx, call, single, req0, req, httpReq, body, ret>>
    /\ UNCHANGED guessVars

\* c.httpClient.Do(httpReq) returns a response whose body holds text followed
\* by trail more bytes.
TransportReply(text, trail) ==
    /\ pc = "transport"
    /\ pc' = "decode"
    /\ body' = [open |-> TRUE, text |-> text, trail |-> trail,
                unread |-> trail + 1, closed |-> FALSE]
    /\ exchanges' = exchanges + 1
    /\ UNCHANGED <<urlOK, ctx, call, single, req0, req, httpReq, terr, ret>>
    /\ UNCHANGED guessVars

\* Client.do, lines 169-178.
doSelect ==
    /\ pc = "select"
    /\ pc' = "done"
    /\ ret' = doFail(ctx, terr)
    /\ UNCHANGED <<urlOK, ctx, call, single, req0, req, httpReq, terr, body, exchanges>>
    /\ UNCHANGED guessVars

\* Client.do, lines 179-188.
doDecode(extra) ==
    /\ pc = "decode"
    /\ pc' = "done"
    /\ LET r == doReply(req, body, extra)
       IN /\ ret' = r.ret
          /\ body' = r.body
    /\ UNCHANGED <<urlOK, ctx, call, single, req0, req, httpReq, terr, exchanges>>
    /\ UNCHANGED guessVars

Next ==
    \/ \E reason \in {"context canceled", "context deadline exceeded"} :
          CtxDone(reason)
    \/ \E v \in VariablesInputs : Do(Query, OperationName, v)
    \/ \E f \in FileUniverse : SingleUpload(Query, OperationName, f)
    \/ \E fs \in FileLists : MultiUpload(Query, OperationName, fs)
    \/ \E fs \in FileLists, v \in VariablesInputs, mode \in BOOLEAN :
          BuildFormDataRequest(
              [NewUploadRequest(Query, OperationName, fs) EXCEPT !.Variables = v],
              mode)
    \/ TransportFail
    \/ \E text \in ReplyTexts, trail \in 0..MaxTrail : TransportReply(text, trail)
    \/ doSelect
    \/ \E extra \in 0..body.trail : doDecode(extra)

Spec == Init /\ [][Next]_vars

\* ------------------------------------------------- Guess on its own inputs

\* A Response as encoding/json fills it from text, with no originating Request.
GuessEnvelope(text) ==
    /\ gpc = "new"
    /\ LET dec == DecodeResponse(NewResponse(NilRequest), text)
       IN /\ dec.err = NoErr
          /\ genv' = dec.resp
    /\ gpc' = "ready"
    /\ UNCHANGED <<gname, gdest, gret>>
    /\ UNCHANGED callVars

\* r.Guess(name, v).
CallGuess(name, v) ==
    /\ gpc = "ready"
    /\ gname' = name
    /\ gdest' = v
    /\ gret' = Guess(genv, name, v)
    /\ gpc' = "done"
    /\ UNCHANGED genv
    /\ UNCHANGED callVars

NextGuess ==
    \/ \E text \in GuessTexts : GuessEnvelope(text)
    \/ \E name \in FieldNames, v \in Destinations : CallGuess(name, v)

SpecGuess == Init /\ [][NextGuess]_vars

\* ----------------------------------------------------------- the exchange:
\* properties of Spec

\* The call is one of Do, SingleUpload and MultiUpload and has returned or
\* panicked after the transport delivered a reply.
Replied == pc = "done" /\ body.open

\* The reply body as encoding/json decodes it into a fresh envelope of req.
Decoded == DecodeResponse(NewResponse(req), body.text)

\* C1: when the reply body decodes into an envelope whose errors list is not
\* empty, the call returns no response and that envelope as the error, with or
\* without data; so a response returned with a nil error has no errors.
C1_ProtocolErrorIsTheFailure ==
    /\ (Replied /\ Decoded.err = NoErr /\ ~Decoded.resp.nil
            /\ Len(Decoded.resp.Errors) > 0)
         => /\ ret.kind = "return"
            /\ ret.resp = NilResponse
            /\ ret.err = [kind |-> "response", resp |-> Decoded.resp]
    /\ (Replied /\ ret.kind = "return" /\ ret.err = NoErr)
         => ~ret.resp.nil /\ Len(ret.resp.Errors) = 0

\* A protocol error was returned for an envelope that also holds data.
C1_Witness ==
    /\ Replied
    /\ ret.err.kind = "response"
    /\ ret.err.resp.Data # JNull
    /\ ret.resp = NilResponse

\* C2: when the transport fails and the context was done before the call,
\* during the exchange or between the transport's failure and the select, the
\* error returned wraps ctx.Err(); the transport's own error is returned only
\* when the context was not done by then.
C2_CancellationPreferred ==
    (pc = "done" /\ terr # NoErr)
      => /\ ctx.at \in {"idle", "transport", "select"}
              => ret.err = [kind |-> "text",
                            chain |-> <<"graphql do error", ctx.err>>]
         /\ ret.err = [kind |-> "text",
                       chain |-> <<"graphql do error">> \o terr.chain]
              => ctx.at \in {"never", "done"}
         /\ ret.resp = NilResponse

\* The context was done between the transport's failure and the select, and
\* its reason was returned.
C2_Witness ==
    /\ pc = "done"
    /\ terr # NoErr
    /\ ctx.at = "select"
    /\ ret.err.chain = <<"graphql do error", "context deadline exceeded">>

\* C8 as claimed: whenever the transport returned a response, the body has
\* been read to its end and closed when the call is over.
C8_BodyReadToEndAndClosed ==
    Replied => body.unread = 0 /\ body.closed

\* C8 as amended: whenever the transport returned a response, the body is
\* closed when the call is over, on every way out (the envelope, a decode
\* error, a protocol error, a panic); it has been read up to the end of its
\* first JSON value or up to its syntax error at least.
C8_BodyClosed ==
    Replied => body.closed /\ body.unread <= body.trail

\* A decode error was returned with the body closed and part of it unread.
C8_Witness ==
    /\ Replied
    /\ ret.err.kind = "text"
    /\ body.closed
    /\ body.unread > 0

\* C10: for every reply body the call returns either (envelope, nil) or
\* (nil, error) and does not crash; a body that is no JSON object yields a
\* "graphql do error" decode error; an envelope returned or surfaced as the
\* error refers to the originating Request.
C10_EveryBodyHandled ==
    Replied
      => /\ ret.kind = "return"
         /\ \/ ~ret.resp.nil /\ ret.err = NoErr
            \/ ret.resp.nil /\ ret.err # NoErr
         /\ body.text.t # "obj"
              => ret.err.kind = "text" /\ ret.err.chain[1] = "graphql do error"
         /\ ~ret.resp.nil => ret.resp.req = req
         /\ ret.err.kind = "response" => ret.err.resp.req = req

\* ------------------------------------------------------- the upload form:
\* properties of Spec

\* buildFormDataRequest has built a request in the given mode.
Encoded(mode) ==
    /\ call \in {"SingleUpload", "MultiUpload", "buildFormDataRequest"}
    /\ single = mode
    /\ ~httpReq.nil

\* The form field key holding the JSON text json.
IsField(part, key, json) ==
    part = [key |-> key, isFile |-> FALSE, filename |-> "", json |-> json,
            bytes |-> <<>>]

\* The binary part key carrying the attachment file.
IsFilePart(part, key, file) ==
    part = [key |-> key, isFile |-> TRUE, filename |-> file.name,
            json |-> JNull, bytes |-> file.bytes]

\* C3: in multi-upload mode with N > 1 attachments, map has exactly the N keys
\* "0".."N-1", entry i is ["variables.files.<i>"], variables is
\* {"files": [N nulls]}, and there are exactly N binary parts, the part keyed
\* "i" carrying the name and bytes of the i-th attachment.
C3_MultiUploadPositions ==
    (Encoded(FALSE) /\ Len(req0.Files) > 1)
      => LET N == Len(req0.Files)
             parts == httpReq.parts
             key(i) == Digits[i + 1]
         IN /\ Len(parts) = N + 2
            /\ parts[1].key = "operations" /\ ~parts[1].isFile
            /\ parts[1].json.o["variables"] =
                 JObj([k \in {"files"} |-> JArr([i \in 1..N |-> JNull])])
            /\ parts[2].key = "map" /\ ~parts[2].isFile
            /\ DOMAIN parts[2].json.o = {key(i) : i \in 0..(N - 1)}
            /\ Cardinality(DOMAIN parts[2].json.o) = N
            /\ \A i \in 0..(N - 1) :
                 /\ parts[2].json.o[key(i)] =
                      JArr(<<JStr("variables.files." \o key(i))>>)
                 /\ IsFilePart(parts[i + 3], key(i), req0.Files[i + 1])
            /\ req.Variables =
                 GoMap([k \in {"files"} |-> GoSlice([i \in 1..N |-> GoNil])])

\* MultiUpload has built the form of three attachments, two of them distinct.
C3_Witness ==
    /\ Encoded(FALSE)
    /\ call = "MultiUpload"
    /\ pc = "transport"
    /\ Len(req0.Files) = 3
    /\ req0.Files[1] # req0.Files[2]

\* C4: in single-upload mode map is {"0": ["variables.file"]}, variables is
\* {"file": null}, and exactly one binary part is written, keyed "0" and
\* carrying the first attachment, however many attachments the Request holds.
C4_SingleUploadForm ==
    Encoded(TRUE)
      => LET parts == httpReq.parts
         IN /\ Len(parts) = 3
            /\ parts[1].key = "operations" /\ ~parts[1].isFile
            /\ parts[1].json.o["variables"] = JObj([k \in {"file"} |-> JNull])
            /\ IsField(parts[2], "map",
                 JObj([k \in {"0"} |-> JArr(<<JStr("variables.file")>>)]))
            /\ IsFilePart(parts[3], "0", req0.Files[1])
            /\ req.Variables = GoMap([k \in {"file"} |-> GoNil])

\* A Request holding two different attachments was encoded in single mode.
C4_Witness ==
    /\ Encoded(TRUE)
    /\ Len(req0.Files) >= 2
    /\ req0.Files[1] # req0.Files[2]

\* C7: when buildFormDataRequest is asked to encode a Request without
\* attachments, the call fails with the "has no files" build error, no HTTP
\* exchange is made and the Request's variables stay as they were.
C7_NoFilesFails ==
    (call \in {"SingleUpload", "MultiUpload", "buildFormDataRequest"}
        /\ req0.Files = <<>>)
      => /\ pc = "done"
         /\ ret.kind = "return"
         /\ ret.resp = NilResponse
         /\ ret.err.kind = "text"
         /\ ret.err.chain[Len(ret.err.chain)] =
              "build form data request error: has no files"
         /\ httpReq.nil
         /\ exchanges = 0
         /\ ~body.open
         /\ req.Variables = req0.Variables

\* MultiUpload was called without attachments.
C7_Witness ==
    /\ call = "MultiUpload"
    /\ req0.Files = <<>>
    /\ ret.err.kind = "text"

\* ------------------------------------------------------------------ Guess:
\* properties of SpecGuess

Guessed == gpc = "done"

\* C5: Guess on an envelope without data fails with the "no data" error for
\* every name and every errors list, and leaves the destination as it was.
C5_NoData ==
    (Guessed /\ genv.Data = JNull)
      => /\ gret.err = [kind |-> "text", chain |-> <<"guess error: has no data">>]
         /\ gret.v = gdest

\* Guess was called on an envelope with errors and without data, with a filled
\* destination.
C5_Witness ==
    /\ Guessed
    /\ genv.Data = JNull
    /\ Len(genv.Errors) > 0
    /\ gdest.rec.Name = "Old"

\* The envelope has data, and no entry for the name asked.
MissingField == Guessed /\ genv.Data # JNull /\ gname \notin DOMAIN genv.Data.o

\* C6 as claimed: Guess on an envelope whose data has no entry for the name
\* fails with the "missing field" error and leaves the destination as it was,
\* also when the errors list is not empty.
C6_MissingField ==
    MissingField
      => /\ gret.err = [kind |-> "text",
                        chain |-> <<"guess error: has no data about " \o gname>>]
         /\ gret.v = gdest

\* C6 as amended: Guess on an envelope whose data has no entry for the name
\* leaves the destination as it was; it fails with the "missing field" error
\* when the errors list is empty, and with the envelope itself as the error
\* when it is not.
C6_MissingFieldUnlessErrors ==
    MissingField
      => /\ gret.v = gdest
         /\ Len(genv.Errors) = 0
              => gret.err = [kind |-> "text",
                             chain |-> <<"guess error: has no data about "
                                           \o gname>>]
         /\ Len(genv.Errors) > 0
              => gret.err = [kind |-> "response", resp |-> genv]

\* Guess was called for a missing name on an envelope with data and errors.
C6_Witness == MissingField /\ Len(genv.Errors) > 0 /\ gdest.rec.Name = "Old"

\* A JSON object whose "name" and "age", where present, are a string and a
\* number.
IsPersonText(d) ==
    /\ d.t = "obj"
    /\ "name" \in DOMAIN d.o => d.o["name"].t = "str"
    /\ "age" \in DOMAIN d.o => d.o["age"].t = "num"

\* The record p holds what the object d has under "name" and "age", and what
\* q held elsewhere.
HoldsPerson(p, d, q) ==
    /\ p.Name = IF "name" \in DOMAIN d.o THEN d.o["name"].s ELSE q.Name
    /\ p.Age = IF "age" \in DOMAIN d.o THEN d.o["age"].n ELSE q.Age

\* C9: Guess on an envelope without errors whose data holds the name returns
\* no error and writes the converted value: an object becomes one record with
\* each field equal to the value under its key, a list of K objects becomes a
\* sequence of exactly K records in the order of the list.
C9_Converted ==
    (Guessed /\ genv.Data # JNull /\ Len(genv.Errors) = 0
        /\ gname \in DOMAIN genv.Data.o)
      => LET d == genv.Data.o[gname]
         IN /\ (gdest.type = "person" /\ IsPersonText(d))
                 => /\ gret.err = NoErr
                    /\ HoldsPerson(gret.v.rec, d, gdest.rec)
            /\ (gdest.type = "[]*person" /\ d.t = "arr"
                    /\ \A i \in DOMAIN d.a : IsPersonText(d.a[i]))
                 => /\ gret.err = NoErr
                    /\ Len(gret.v.list) = Len(d.a)
                    /\ \A i \in DOMAIN d.a :
                         HoldsPerson(gret.v.list[i], d.a[i], person)

\* A list of two different objects was converted into a sequence.
C9_Witness ==
    /\ Guessed
    /\ gret.err = NoErr
    /\ gdest.type = "[]*person"
    /\ Len(gret.v.list) = 2
    /\ gret.v.list[1].Name = "Rose"
    /\ gret.v.list[2].Name = "Jack"

====
